---- MODULE Spec2Model ----
(***************************************************************************)
(* Model of the video annotater: the Data store (src/src/data.py), the     *)
(* capture session VideoPlayer and the playback AnnotatedPlayer            *)
(* (src/src/player.py).                                                    *)
(*                                                                         *)
(* Time is counted in milliseconds.  A point is a pair <<x, y>>, a stroke  *)
(* command a pair <<command, point>>, the empty list [] and None are <<>>. *)
(* A frame's pixels are the decoder index of the picture.  An attribute    *)
(* that was never assigned is Unset.                                       *)
(***************************************************************************)
EXTENDS Integers, Sequences, FiniteSets, TLC

VARIABLES
    \* ---- Data (data.py) ----
    frames,           \* Data.frames: list of (timestamp, frame_idx, frame)
    audio_data,       \* Data.audio_data: list of (timestamp, chunk)
    annotations,      \* Data.annotations restricted to its integer keys
    metadata,         \* Data.annotations["metadata"]: <<>> while the key is absent
    max_frames,       \* Data.max_frames
    curr_frame,       \* Data.curr_frame
    \* ---- VideoPlayer (player.py) ----
    cap_open,         \* cap.isOpened()
    cap_pos,          \* cap.get(CAP_PROP_POS_FRAMES): index of the next frame to decode
    paused,           \* VideoPlayer.paused
    drawing,          \* VideoPlayer.drawing
    curr_frame_idx,   \* VideoPlayer.curr_frame_idx
    pbar_n,           \* pbar.n, the tqdm tick counter
    pause_frame,      \* VideoPlayer.pause_frame (Unset until a read succeeds)
    last_frame_time,  \* VideoPlayer.last_frame_time (Unset until a read succeeds)
    start_point,      \* VideoPlayer.start_point
    annotation_chunk, \* VideoPlayer.annotation_chunk
    overlay,          \* segments cv2.line drew on the frame shown by the current tick
    frame_shown,      \* VideoPlayer.frame: the picture the current tick hands to cv2.imshow
    long_annotations, \* VideoPlayer.long_annotations / AnnotatedPlayer.long_annotations
    command_queue,    \* VideoPlayer.command_queue
    pc,               \* position of the capture loop thread (main_loop)
    cpc,              \* position of the control-surface thread (mainloop / close)
    now,              \* t.perf_counter() - start_counter
    \* ---- persistence artifacts ----
    video_file,       \* frames written by process_video_data
    audio_file,       \* chunks written by process_audio_data
    final_file,       \* the annotated video written by the mux step
    json_file,        \* the annotation timeline written by save_annotations
    save_log,         \* the stages of save_data that were called, in order
    \* ---- VideoPlayer.start ----
    boot,             \* how far start() has come and what it has created
    \* ---- AnnotatedPlayer (player.py) ----
    ap_pos,           \* cap.get(CAP_PROP_POS_FRAMES) of the playback decoder
    ap_chunk,         \* AnnotatedPlayer.annotation_chunk
    ap_shown,         \* what show() put on each decoded frame, in order
    \* ---- stroke replay through both renderers under both policies ----
    stroke,           \* the stroke commands replayed so far
    render_vp,        \* VideoPlayer renderer state, one per value of long_annotations
    render_ap,        \* AnnotatedPlayer renderer state, one per value of long_annotations
                      \* (drawn: every segment so far, lines: those on the latest frame)
    \* ---- gap reconciler outputs ----
    video_gaps,       \* result of identify_video_gaps
    synced,           \* result of combined_audio
    \* ---- history of the run ----
    env_count,        \* inputs delivered so far: commands, pointer events, audio callbacks
    stale,            \* ids of the commands that were queued when a restart was applied
    last_event,       \* the pointer event delivered last in the current cv2.waitKey
                      \* (store driven directly: the add_annotation call made last
                      \* since the latest append or restart)
    appended          \* (org_frame_idx, frame_idx) of every add_curr_frame since the last clean

dataVars    == <<frames, audio_data, annotations, metadata, max_frames, curr_frame>>
capVars     == <<cap_open, cap_pos>>
strokeVars  == <<start_point, annotation_chunk, overlay, frame_shown, long_annotations>>
playVars    == <<paused, drawing, curr_frame_idx, pbar_n, pause_frame, last_frame_time>>
threadVars  == <<pc, cpc, now>>
fileVars    == <<video_file, audio_file, final_file, json_file, save_log>>
apVars      == <<ap_pos, ap_chunk, ap_shown>>
renderVars  == <<stroke, render_vp, render_ap>>
gapVars     == <<video_gaps, synced>>
histVars    == <<env_count, stale, appended, last_event>>
vars == <<dataVars, capVars, strokeVars, playVars, command_queue, threadVars,
          fileVars, boot, apVars, renderVars, gapVars, histVars>>

(***************************************************************************)
(* Bounds of the model and inputs of the session.                          *)
(***************************************************************************)
FrameCount == 2      \* cap.get(CAP_PROP_FRAME_COUNT) of the source video
Fps        == 1      \* int(cap.get(CAP_PROP_FPS)) of the source video
MaxTicks   == 2      \* capture ticks started in one run
MaxInputs  == 3      \* commands, pointer events and audio callbacks in one run
MaxIdx     == 2      \* largest frame_idx / org_frame_idx handed to the store directly

Unset  == -1
Points == {<<0, 0>>, <<1, 1>>}
Commands == {"start", "move", "end"}
EmptyMap == [k \in {} |-> <<>>]

Upsert(f, k, v) == [x \in (DOMAIN f) \cup {k} |-> IF x = k THEN v ELSE f[x]]

Max(S) == CHOOSE x \in S : \A y \in S : y <= x

(***************************************************************************)
(* Data: the timeline store.                                               *)
(***************************************************************************)
get_frames_length == Len(frames)

get_annotations_length ==
    Cardinality(DOMAIN annotations) + (IF metadata = <<>> THEN 0 ELSE 1)

\* Variant: the entry is keyed by the supplied index instead of the list position.
new_frame_idx_by_argument(fr, frame_idx) == frame_idx

\* The logical index add_curr_frame gives the frame it has just appended.
new_frame_idx(fr, frame_idx) == Len(fr) - 1

\* Data.add_curr_frame
add_curr_frame(org_frame_idx, frame_idx, frame, time_str, timestamp) ==
    LET fr  == Append(frames, [ts |-> timestamp, idx |-> frame_idx, frame |-> frame])
        new == new_frame_idx(fr, frame_idx)
    IN  /\ max_frames' = IF frame_idx = max_frames THEN max_frames + 1 ELSE max_frames
        /\ frames' = fr
        /\ annotations' =
              IF new \notin DOMAIN annotations
              THEN Upsert(annotations, new,
                          [idx |-> frame_idx, org_idx |-> org_frame_idx,
                           time_str |-> time_str, anno |-> <<>>,
                           timestamp |-> timestamp])
              ELSE [annotations EXCEPT ![new] =
                          [idx |-> frame_idx, org_idx |-> org_frame_idx,
                           time_str |-> time_str, anno |-> annotations[new].anno,
                           timestamp |-> timestamp]]
        /\ UNCHANGED <<audio_data, metadata, curr_frame>>

\* Data.add_audio_data
add_audio_data(timestamp, audio) ==
    /\ audio_data' = Append(audio_data, [ts |-> timestamp, chunk |-> audio])
    /\ UNCHANGED <<frames, annotations, metadata, max_frames, curr_frame>>

\* Variant: a point already stored in the entry is kept.
stored_anno_keeps_old(last, command, annotation) ==
    IF last # <<>> THEN last ELSE <<command, annotation>>

\* The value add_annotation leaves in an entry that held `last`.
stored_anno(last, command, annotation) ==
    LET first == IF last # <<>> /\ last[1] = "start"
                 THEN <<"start", annotation>>
                 ELSE <<command, annotation>>
    IN  IF first # <<>> /\ first[1] = "start"
        THEN <<"start", annotation>>
        ELSE <<command, annotation>>

\* Variant: the command is stored under the key of the frame that comes next.
add_annotation_next_key(command, annotation) ==
    /\ annotations' = Upsert(annotations, get_frames_length,
                             [idx |-> Unset, org_idx |-> Unset, time_str |-> Unset,
                              anno |-> <<command, annotation>>, timestamp |-> Unset])
    /\ UNCHANGED <<frames, audio_data, metadata, max_frames, curr_frame>>

\* Variant: the two early returns are left out.
add_annotation_unguarded(command, annotation) ==
    /\ annotations' = Upsert(annotations, get_frames_length - 1,
                             [idx |-> Unset, org_idx |-> Unset, time_str |-> Unset,
                              anno |-> <<command, annotation>>, timestamp |-> Unset])
    /\ UNCHANGED <<frames, audio_data, metadata, max_frames, curr_frame>>

\* Data.add_annotation
add_annotation(command, annotation) ==
    IF get_frames_length = 0
    THEN UNCHANGED dataVars
    ELSE LET frame_idx == get_frames_length - 1 IN
         IF frame_idx \notin DOMAIN annotations
         THEN UNCHANGED dataVars
         ELSE /\ annotations' =
                    [annotations EXCEPT ![frame_idx].anno =
                        stored_anno(annotations[frame_idx].anno, command, annotation)]
              /\ UNCHANGED <<frames, audio_data, metadata, max_frames, curr_frame>>

\* Variant: the clean resets the counter and nothing reseeds it.
clean_and_reseed_zero(total) ==
    /\ frames' = <<>>
    /\ audio_data' = <<>>
    /\ annotations' = EmptyMap
    /\ metadata' = <<>>
    /\ curr_frame' = 0
    /\ max_frames' = 0

\* Data.clean followed by Data.update_max_frames, as VideoPlayer.restart calls them
\* (clean assigns 0 to a new attribute max_frame and leaves max_frames alone).
clean_and_reseed(total) ==
    /\ frames' = <<>>
    /\ audio_data' = <<>>
    /\ annotations' = EmptyMap
    /\ metadata' = <<>>
    /\ curr_frame' = 0
    /\ max_frames' = total

(***************************************************************************)
(* Gap reconciler (pure functions of the finished store).                  *)
(***************************************************************************)
GapThreshold == 100     \* identify_video_gaps(threshold=0.1), in milliseconds

\* Variant: a difference equal to the threshold counts as a gap.
is_gap_inclusive(previous_time, current_time, threshold) ==
    current_time - previous_time >= threshold

\* The test identify_video_gaps applies to two consecutive frame timestamps.
is_gap(previous_time, current_time, threshold) ==
    current_time - previous_time > threshold

\* Data.identify_video_gaps
RECURSIVE gaps_from(_, _, _)
gaps_from(fr, i, threshold) ==
    IF i > Len(fr) THEN <<>>
    ELSE (IF is_gap(fr[i - 1].ts, fr[i].ts, threshold)
          THEN <<(<<fr[i - 1].ts, fr[i].ts>>)>> ELSE <<>>)
         \o gaps_from(fr, i + 1, threshold)

identify_video_gaps(fr, threshold) == gaps_from(fr, 2, threshold)

\* The two while loops combined_audio runs for one gap, from cursor i with the
\* output so far in out: the chunks before the gap are kept, those before its
\* end are skipped.
RECURSIVE keep_before(_, _, _, _)
keep_before(au, i, out, gap_start) ==
    IF i <= Len(au) /\ au[i].ts < gap_start
    THEN keep_before(au, i + 1, Append(out, au[i].chunk), gap_start)
    ELSE [i |-> i, out |-> out]

\* Variant: the chunk stamped exactly at the gap's end is skipped too.
RECURSIVE skip_through_end(_, _, _)
skip_through_end(au, i, gap_end) ==
    IF i <= Len(au) /\ au[i].ts <= gap_end
    THEN skip_through_end(au, i + 1, gap_end)
    ELSE i

RECURSIVE skip_during(_, _, _)
skip_during(au, i, gap_end) ==
    IF i <= Len(au) /\ au[i].ts < gap_end
    THEN skip_during(au, i + 1, gap_end)
    ELSE i

\* Variant: the last chunk is left out.
RECURSIVE keep_rest_but_last(_, _, _)
keep_rest_but_last(au, i, out) ==
    IF i < Len(au) THEN keep_rest_but_last(au, i + 1, Append(out, au[i].chunk)) ELSE out

\* The loop that appends what is left after the last gap.
RECURSIVE keep_rest(_, _, _)
keep_rest(au, i, out) ==
    IF i <= Len(au) THEN keep_rest(au, i + 1, Append(out, au[i].chunk)) ELSE out

RECURSIVE walk_gaps(_, _, _, _, _)
walk_gaps(au, gaps, g, i, out) ==
    IF g > Len(gaps) THEN keep_rest(au, i, out)
    ELSE LET k == keep_before(au, i, out, gaps[g][1])
         IN  walk_gaps(au, gaps, g + 1, skip_during(au, k.i, gaps[g][2]), k.out)

\* Data.combined_audio: the kept chunks in order (np.concatenate of them; the empty
\* array when none is kept).
combined_audio(fr, au) ==
    walk_gaps(au, identify_video_gaps(fr, GapThreshold), 1, 1, <<>>)

(***************************************************************************)
(* Stroke rendering.  A renderer step returns the renderer state it leaves *)
(* and the set of segments <<from, to>> it drew with cv2.line.             *)
(***************************************************************************)
chunk_segments(chunk) == {<<chunk[i], chunk[i + 1]>> : i \in 1..(Len(chunk) - 1)}

\* VideoPlayer._draw_move_annotations
vp_draw_move(long, sp, chunk, point) ==
    IF long
    THEN [start_point |-> sp, annotation_chunk |-> Append(chunk, point),
          lines |-> chunk_segments(Append(chunk, point))]
    ELSE [start_point |-> point, annotation_chunk |-> chunk,
          lines |-> IF sp # <<>> THEN {<<sp, point>>} ELSE {}]

\* VideoPlayer._finalize_annotation_chunk
vp_finalize_annotation_chunk(long, sp, chunk, point) ==
    [start_point |-> <<>>, annotation_chunk |-> <<>>,
     lines |-> IF long THEN chunk_segments(chunk)
               ELSE IF sp # <<>> THEN {<<sp, point>>} ELSE {}]

\* The command dispatch of VideoPlayer.draw_annotations
vp_draw(long, sp, chunk, command, point) ==
    CASE command = "start" ->
            [start_point |-> point, annotation_chunk |-> <<point>>, lines |-> {}]
      [] command = "move" -> vp_draw_move(long, sp, chunk, point)
      [] command = "end"  -> vp_finalize_annotation_chunk(long, sp, chunk, point)
      [] OTHER -> [start_point |-> sp, annotation_chunk |-> chunk, lines |-> {}]

\* AnnotatedPlayer._draw_move_annotations
ap_draw_move(long, chunk, point) ==
    IF long
    THEN [annotation_chunk |-> Append(chunk, point),
          lines |-> chunk_segments(Append(chunk, point))]
    ELSE [annotation_chunk |-> <<point>>,
          lines |-> IF chunk # <<>> THEN {<<chunk[Len(chunk)], point>>} ELSE {}]

\* AnnotatedPlayer._finalize_annotation_chunk
ap_finalize_annotation_chunk(long, chunk, point) ==
    [annotation_chunk |-> <<>>,
     lines |-> IF chunk # <<>> THEN chunk_segments(chunk) ELSE {}]

\* AnnotatedPlayer._draw_annotations
ap_draw(long, chunk, command, point) ==
    CASE command = "start" -> [annotation_chunk |-> <<point>>, lines |-> {}]
      [] command = "move" -> ap_draw_move(long, chunk, point)
      [] command = "end"  -> ap_finalize_annotation_chunk(long, chunk, point)
      [] OTHER -> [annotation_chunk |-> chunk, lines |-> {}]

(***************************************************************************)
(* The decoder (cv2.VideoCapture) as the player uses it.                   *)
(***************************************************************************)
\* cap.read() succeeds
read_ok == cap_open /\ cap_pos < FrameCount

\* int(cap.get(CAP_PROP_FRAME_COUNT)); a released capture reports 0
reported_frame_count == IF cap_open THEN FrameCount ELSE 0

\* cap.set(CAP_PROP_POS_FRAMES, n); no effect on a released capture
cap_set_pos(n) == cap_pos' = (IF cap_open THEN n ELSE cap_pos)

\* cap.get(CAP_PROP_POS_MSEC) with the cursor at pos
pos_msec(pos) == (pos * 1000) \div Fps

\* VideoPlayer.frame_delay = int((1 / fps) * 1000)
frame_delay == 1000 \div Fps

\* VideoPlayer.draw_timer: the label is the time cut to whole seconds (H:MM:SS)
draw_timer(elapsed_ms) == elapsed_ms \div 1000

\* VideoPlayer.last_frame: the picture at index FRAME_COUNT - 1, read once by
\* _initialize_video_capture and never assigned again
last_frame == FrameCount - 1

(***************************************************************************)
(* VideoPlayer: the capture loop thread.                                   *)
(* pc: "loop" at the while test of main_loop, "cmd" at _handle_commands,   *)
(* "read" after it, "wait" inside cv2.waitKey (where the window delivers   *)
(* pointer events), "exit" after the loop and the audio stream's with      *)
(* block, "crashed" when an exception ended the thread.                    *)
(***************************************************************************)
Absent == <<Unset>>

stream_open == pc \in {"loop", "cmd", "read", "wait"}

\* Variant: the loop test does not look at the decoder.
LoopTestIgnoresRelease ==
    /\ pc = "loop"
    /\ now < MaxTicks * frame_delay
    /\ pc' = "cmd"
    /\ UNCHANGED <<dataVars, capVars, strokeVars, playVars, command_queue, cpc, now,
                   fileVars, boot, apVars, renderVars, gapVars, histVars>>

\* while self.cap.isOpened()
LoopTest ==
    /\ pc = "loop"
    /\ \/ /\ cap_open
          /\ now < MaxTicks * frame_delay
          /\ pc' = "cmd"
       \/ /\ ~cap_open
          /\ pc' = "exit"
    /\ UNCHANGED <<dataVars, capVars, strokeVars, playVars, command_queue, cpc, now,
                   fileVars, boot, apVars, renderVars, gapVars, histVars>>

\* Variant: restart leaves the queue as it is.
not_drained(q) == q

\* What the loop `while not self.command_queue.empty(): self.command_queue.get()`
\* of restart leaves of the queue q.
drained(q) == <<>>

\* VideoPlayer.toggle_pause
toggle_pause ==
    /\ paused' = ~paused
    /\ UNCHANGED <<dataVars, capVars, drawing, curr_frame_idx, pbar_n>>

\* Variant: a seek rewinds the timeline to the frame it seeks to.
seek_trimming(frame_number) ==
    /\ cap_set_pos(frame_number)
    /\ curr_frame' = frame_number
    /\ curr_frame_idx' = frame_number
    /\ frames' = SubSeq(frames, 1, IF frame_number < Len(frames) THEN frame_number
                                   ELSE Len(frames))
    /\ annotations' = [k \in {i \in DOMAIN annotations : i < frame_number} |->
                          annotations[k]]
    /\ UNCHANGED <<audio_data, metadata, max_frames, cap_open, paused, drawing, pbar_n>>

\* VideoPlayer.seek
seek(frame_number) ==
    /\ cap_set_pos(frame_number)
    /\ curr_frame' = frame_number
    /\ curr_frame_idx' = frame_number
    /\ UNCHANGED <<frames, audio_data, annotations, metadata, max_frames,
                   cap_open, paused, drawing, pbar_n>>

\* Variant: the tick counter of the progress bar is not reset.
restart_keeps_counter ==
    /\ paused' = FALSE
    /\ drawing' = FALSE
    /\ cap_set_pos(0)
    /\ clean_and_reseed(reported_frame_count)
    /\ appended' = <<>>
    /\ UNCHANGED <<cap_open, curr_frame_idx, pbar_n>>

\* VideoPlayer.restart, but for the queue
restart ==
    /\ paused' = FALSE
    /\ drawing' = FALSE
    /\ cap_set_pos(0)
    /\ clean_and_reseed(reported_frame_count)
    /\ pbar_n' = 0
    /\ appended' = <<>>
    /\ UNCHANGED <<cap_open, curr_frame_idx>>

\* Variant: one call of _handle_commands takes every pending command off the queue.
after_get_all(q) == <<>>

\* What command_queue.get_nowait() leaves of a queue q that is not empty.
after_get(q) == Tail(q)

\* VideoPlayer._handle_commands: a dequeued value that is none of 'pause',
\* ('seek', n), 'restart' matches no branch
HandleCommands ==
    /\ pc = "cmd"
    /\ pc' = "read"
    /\ IF command_queue = <<>>
       THEN UNCHANGED <<dataVars, capVars, paused, drawing, curr_frame_idx, pbar_n,
                        command_queue, stale, appended>>
       ELSE LET command == Head(command_queue) IN
            CASE command.verb = "pause" ->
                       /\ toggle_pause
                       /\ command_queue' = after_get(command_queue)
                       /\ UNCHANGED <<stale, appended>>
                 [] command.verb = "seek" ->
                       /\ seek(command.arg)
                       /\ command_queue' = after_get(command_queue)
                       /\ UNCHANGED <<stale, appended>>
                 [] command.verb = "restart" ->
                       /\ restart
                       /\ command_queue' = drained(after_get(command_queue))
                       /\ stale' = stale \cup
                             {Tail(command_queue)[i].id : i \in 1..(Len(command_queue) - 1)}
                 [] OTHER ->
                       /\ command_queue' = after_get(command_queue)
                       /\ UNCHANGED <<dataVars, capVars, paused, drawing, curr_frame_idx,
                                      pbar_n, stale, appended>>
    /\ UNCHANGED <<strokeVars, pause_frame, last_frame_time, cpc, now, fileVars, boot,
                   apVars, renderVars, gapVars, env_count, last_event>>

\* Variant: only the annotation map is tested.
last_anno_guard_annotations_only == get_annotations_length = 0

\* The test that makes Data.get_last_anno return None
last_anno_guard == get_frames_length = 0 \/ get_annotations_length = 0

\* Data.get_last_anno raises: past the test, max() compares "metadata" with an
\* integer key (TypeError), or the "metadata" value has no "anno" (KeyError)
get_last_anno_raises ==
    /\ ~last_anno_guard
    /\ metadata # <<>> \/ DOMAIN annotations = {}

\* Variant: the latest stroke command of the whole timeline, however old.
get_last_anno_any_age ==
    LET held == {k \in DOMAIN annotations : annotations[k].anno # <<>>}
    IN  IF held = {} THEN <<>> ELSE annotations[Max(held)].anno

\* Data.get_last_anno (None also stands for the call that raised)
get_last_anno ==
    IF last_anno_guard \/ get_last_anno_raises THEN <<>>
    ELSE annotations[Max(DOMAIN annotations)].anno

\* max() over the keys of Data.annotations raises on an empty map and on a map
\* that mixes integer keys with "metadata"; with "metadata" alone get_last_anno
\* indexes its value with "anno".
draw_raises ==
    \/ get_annotations_length = 0
    \/ metadata # <<>> /\ (DOMAIN annotations # {} \/ get_frames_length # 0)

\* The staleness test of VideoPlayer.draw_annotations
StaleWindow == 5

within_window(largest_key, length) ==
    IF largest_key >= length THEN largest_key - length <= StaleWindow
    ELSE length - largest_key <= StaleWindow

\* VideoPlayer.draw_annotations, when it does not raise
draw_annotations ==
    LET annotation == get_last_anno IN
    IF annotation # <<>> /\ within_window(Max(DOMAIN annotations), get_frames_length)
    THEN LET r == vp_draw(long_annotations, start_point, annotation_chunk,
                          annotation[1], annotation[2])
         IN  /\ start_point' = r.start_point
             /\ annotation_chunk' = r.annotation_chunk
             /\ overlay' = r.lines
    ELSE /\ overlay' = {}
         /\ UNCHANGED <<start_point, annotation_chunk>>

\* VideoPlayer._process_video_frame from the read to cv2.imshow and add_curr_frame
ProcessFrame ==
    /\ pc = "read"
    /\ LET ret == ~paused /\ read_ok IN
       /\ cap_pos' = IF ret THEN cap_pos + 1 ELSE cap_pos
       /\ curr_frame_idx' = IF ret THEN cap_pos + 1 ELSE curr_frame_idx
       /\ pause_frame' = IF ret THEN cap_pos ELSE pause_frame
       /\ last_frame_time' = IF ret THEN pos_msec(cap_pos + 1) ELSE last_frame_time
       /\ frame_shown' = IF paused
                         THEN (IF pause_frame = Unset THEN frame_shown ELSE pause_frame)
                         ELSE IF ret THEN cap_pos ELSE last_frame
       /\ IF pause_frame' = Unset \/ (drawing /\ draw_raises)
          THEN \* AttributeError / ValueError / TypeError ends the thread
               /\ pc' = "crashed"
               /\ UNCHANGED <<dataVars, start_point, annotation_chunk, overlay,
                              long_annotations, appended>>
          ELSE /\ pc' = "wait"
               /\ IF drawing THEN draw_annotations
                  ELSE /\ overlay' = {}
                       /\ UNCHANGED <<start_point, annotation_chunk>>
               /\ add_curr_frame(curr_frame_idx', pbar_n, pause_frame',
                                 draw_timer(last_frame_time'), now)
               /\ appended' = Append(appended, <<curr_frame_idx', pbar_n>>)
               /\ UNCHANGED long_annotations
    /\ UNCHANGED <<cap_open, paused, drawing, pbar_n, command_queue, cpc, now,
                   fileVars, boot, apVars, renderVars, gapVars, env_count, stale, last_event>>

\* VideoPlayer.mouse_callback
mouse_callback(event, point) ==
    CASE event = "down" /\ ~drawing ->
            /\ drawing' = TRUE
            /\ add_annotation("start", point)
      [] event = "move" /\ drawing ->
            /\ drawing' = drawing
            /\ add_annotation("move", point)
      [] event = "up" /\ drawing ->
            /\ drawing' = FALSE
            /\ add_annotation("end", point)
      [] OTHER -> UNCHANGED <<dataVars, drawing>>

PointerEvents == {"down", "move", "up"}

NoEvent == [event |-> "none", point |-> <<0, 0>>, was_drawing |-> FALSE, before |-> <<>>]

\* The stroke command stored for the last logical frame
last_entry_anno ==
    IF get_frames_length > 0 /\ (get_frames_length - 1) \in DOMAIN annotations
    THEN annotations[get_frames_length - 1].anno ELSE <<>>

\* One pointer event delivered by the window during cv2.waitKey
MouseStep(event, point) ==
    /\ pc = "wait"
    /\ env_count < MaxInputs
    /\ env_count' = env_count + 1
    /\ mouse_callback(event, point)
    /\ last_event' = [event |-> event, point |-> point, was_drawing |-> drawing,
                      before |-> last_entry_anno]
    /\ UNCHANGED <<capVars, strokeVars, paused, curr_frame_idx, pbar_n, pause_frame,
                   last_frame_time, command_queue, threadVars, fileVars, boot, apVars,
                   renderVars, gapVars, stale, appended>>

MouseEvent ==
    /\ pc = "wait"
    /\ \E event \in PointerEvents, point \in Points : MouseStep(event, point)

\* pbar.update(1) and _manage_frame_delay at the end of the tick
EndTick ==
    /\ pc = "wait"
    /\ pc' = "loop"
    /\ pbar_n' = pbar_n + 1
    /\ now' = now + frame_delay
    /\ last_event' = NoEvent
    /\ UNCHANGED <<dataVars, capVars, strokeVars, paused, drawing, curr_frame_idx,
                   pause_frame, last_frame_time, command_queue, cpc, fileVars, boot,
                   apVars, renderVars, gapVars, env_count, stale, appended>>

\* VideoPlayer.audio_callback, on the audio thread while the InputStream is open
AudioCallback ==
    /\ stream_open
    /\ env_count < MaxInputs
    /\ env_count' = env_count + 1
    /\ add_audio_data(now, Len(audio_data))
    /\ UNCHANGED <<capVars, strokeVars, playVars, command_queue, threadVars,
                   fileVars, boot, apVars, renderVars, gapVars, stale, appended, last_event>>

(***************************************************************************)
(* Persistence (Data.save_data and its stages).                            *)
(***************************************************************************)
\* Variant: the writer keeps the frames whose index is below the source's frame
\* count, whatever the limit.
RECURSIVE written_frames_below_source(_, _, _)
written_frames_below_source(fr, i, limit) ==
    IF i > Len(fr) THEN <<>>
    ELSE (IF fr[i].idx < FrameCount THEN <<fr[i].frame>> ELSE <<>>)
         \o written_frames_below_source(fr, i + 1, limit)

\* The frames process_video_data hands to out.write: those of fr[i..] whose idx
\* is below limit (self.max_frames), in list order.
RECURSIVE written_frames(_, _, _)
written_frames(fr, i, limit) ==
    IF i > Len(fr) THEN <<>>
    ELSE (IF fr[i].idx < limit THEN <<fr[i].frame>> ELSE <<>>)
         \o written_frames(fr, i + 1, limit)

\* Data.process_video_data raises ZeroDivisionError: with one stored frame
\* last_index is 0, and after out.write the first round of the loop computes
\* idx / last_index for the progress window that save_data always passes.
video_write_raises == Len(frames) = 1 /\ frames[1].idx < max_frames

\* Data.process_video_data: nothing is written when no frame is stored; when it
\* raises, the file holds what was written before
process_video_data ==
    video_file' = IF frames = <<>> THEN video_file
                  ELSE written_frames(frames, 1, max_frames)

\* Data.process_audio_data
process_audio_data ==
    audio_file' = IF Len(audio_data) > 0 THEN combined_audio(frames, audio_data)
                  ELSE audio_file

\* Data.save_av_and_clean: ffmpeg merges the two files when both exist, then both
\* intermediate files are removed
save_av_and_clean ==
    /\ final_file' = IF video_file # Absent /\ audio_file # Absent
                     THEN video_file ELSE final_file
    /\ video_file' = Absent
    /\ audio_file' = Absent

\* The value Data.save_annotations stores under "metadata"
metadata_record ==
    [video_name |-> "name", frame_rate |-> Fps, frame_count |-> max_frames]

\* json.dump of the annotation map: integer keys become strings
json_dump(ann, md) ==
    [k \in {ToString(i) : i \in DOMAIN ann} \cup {"metadata"} |->
        IF k = "metadata" THEN md
        ELSE ann[CHOOSE i \in DOMAIN ann : ToString(i) = k]]

\* Data.save_annotations
save_annotations ==
    /\ metadata' = metadata_record
    /\ json_file' = json_dump(annotations, metadata_record)

(***************************************************************************)
(* VideoPlayer: the control-surface thread.                                *)
(* cpc: "mainloop" while the control window runs, then the positions of    *)
(* close(): "save_video", "save_audio", "save_mux", "save_json" before     *)
(* each stage of save_data, "join" before video_thread.join(1), "closed";  *)
(* "aborted" when an exception left close().                               *)
(***************************************************************************)
SeekTargets == {0, FrameCount - 1}

CommandValues ==
    {[verb |-> "pause", arg |-> 0], [verb |-> "restart", arg |-> 0]}
    \cup {[verb |-> "seek", arg |-> n] : n \in SeekTargets}

\* A value on the queue that _handle_commands does not recognise
UnknownValues == {[verb |-> "other", arg |-> 0]}

\* command_queue.put of one of `values`
Put(values) ==
    /\ cpc = "mainloop"
    /\ env_count < MaxInputs
    /\ \E c \in values :
          command_queue' = Append(command_queue,
                                  [id |-> env_count, verb |-> c.verb, arg |-> c.arg])
    /\ env_count' = env_count + 1
    /\ UNCHANGED <<dataVars, capVars, strokeVars, playVars, threadVars, fileVars, boot,
                   apVars, renderVars, gapVars, stale, appended, last_event>>

\* pause() / seek(n) / restart() of the command surface
Enqueue == Put(CommandValues)

\* Any value put on the queue
EnqueueAny == Put(CommandValues \cup UnknownValues)

\* The position close(save) reaches after cap.release() and sd.stop()
after_release(save) == IF save THEN "save_video" ELSE "join"

\* VideoPlayer.close: self.cap.release(); sd.stop()
\* (a released capture reports position 0 and frame count 0 and reads nothing;
\* sd.stop() ends sd.play / sd.rec only, not the InputStream of main_loop)
CloseRelease ==
    /\ cpc = "mainloop"
    /\ cap_open' = FALSE
    /\ cap_pos' = 0
    /\ \E save \in BOOLEAN : cpc' = after_release(save)
    /\ UNCHANGED <<dataVars, strokeVars, playVars, command_queue, pc, now,
                   fileVars, boot, apVars, renderVars, gapVars, histVars>>

\* The stage save_data calls after `stage` has returned
next_stage(stage) ==
    CASE stage = "save_video" -> "save_audio"
      [] stage = "save_audio" -> "save_mux"
      [] stage = "save_mux"   -> "save_json"
      [] stage = "save_json"  -> "join"

\* An exception leaves save_data and close(): nothing after it in close() runs
SaveVideo ==
    /\ cpc = "save_video"
    /\ process_video_data
    /\ save_log' = Append(save_log, "save_video")
    /\ cpc' = IF video_write_raises THEN "aborted" ELSE next_stage("save_video")
    /\ UNCHANGED <<dataVars, capVars, strokeVars, playVars, command_queue, pc, now,
                   audio_file, final_file, json_file, boot, apVars, renderVars, gapVars,
                   histVars>>

SaveAudio ==
    /\ cpc = "save_audio"
    /\ process_audio_data
    /\ save_log' = Append(save_log, "save_audio")
    /\ cpc' = next_stage("save_audio")
    /\ UNCHANGED <<dataVars, capVars, strokeVars, playVars, command_queue, pc, now,
                   video_file, final_file, json_file, boot, apVars, renderVars, gapVars,
                   histVars>>

SaveMux ==
    /\ cpc = "save_mux"
    /\ save_av_and_clean
    /\ save_log' = Append(save_log, "save_mux")
    /\ cpc' = next_stage("save_mux")
    /\ UNCHANGED <<dataVars, capVars, strokeVars, playVars, command_queue, pc, now,
                   json_file, boot, apVars, renderVars, gapVars, histVars>>

SaveJson ==
    /\ cpc = "save_json"
    /\ save_annotations
    /\ save_log' = Append(save_log, "save_json")
    /\ cpc' = next_stage("save_json")
    /\ UNCHANGED <<frames, audio_data, annotations, max_frames, curr_frame, capVars,
                   strokeVars, playVars, command_queue, pc, now, video_file,
                   audio_file, final_file, boot, apVars, renderVars, gapVars, histVars>>

\* done_event.set(); video_thread.join(1) returns when the thread has ended or
\* after one second
Join ==
    /\ cpc = "join"
    /\ cpc' = "closed"
    /\ UNCHANGED <<dataVars, capVars, strokeVars, playVars, command_queue, pc, now,
                   fileVars, boot, apVars, renderVars, gapVars, histVars>>

(***************************************************************************)
(* VideoPlayer.start, step by step.  boot.at is the call start() is about  *)
(* to make ("returned": start() returned early, "raised": an exception     *)
(* left it, "running": the session runs); boot.file_exists and             *)
(* boot.decoder are what the file system and cv2.VideoCapture answer;      *)
(* boot.data, boot.window and boot.thread tell whether the Data object,    *)
(* the control window and the capture loop thread were created.            *)
(***************************************************************************)
Decoders == {"ok", "closed", "undecodable"}

Started ==
    [at |-> "running", file_exists |-> TRUE, decoder |-> "ok",
     data |-> TRUE, window |-> TRUE, thread |-> TRUE]

\* if not self._validate_file(self.file_name): return
ValidateFile ==
    /\ boot.at = "validate"
    /\ boot' = [boot EXCEPT !.at = IF boot.file_exists THEN "capture" ELSE "returned"]
    /\ UNCHANGED <<dataVars, capVars, strokeVars, playVars, command_queue, threadVars,
                   fileVars, apVars, renderVars, gapVars, histVars>>

\* VideoPlayer._initialize_video_capture: a capture that is not opened makes it
\* return early; one that opens but decodes nothing leaves last_frame None and
\* last_frame.shape raises
InitializeVideoCapture ==
    /\ boot.at = "capture"
    /\ cap_open' = (boot.decoder # "closed")
    /\ cap_pos' = 0
    /\ boot' = [boot EXCEPT !.at = IF boot.decoder = "undecodable" THEN "raised"
                                   ELSE "data"]
    /\ UNCHANGED <<dataVars, strokeVars, playVars, command_queue, threadVars,
                   fileVars, apVars, renderVars, gapVars, histVars>>

\* int(cap.get(CAP_PROP_FPS)); a capture that is not opened reports 0
reported_fps == IF cap_open THEN Fps ELSE 0

\* VideoPlayer._initialize_data_object: Data(...) is constructed, then
\* frame_delay = int((1 / frame_rate) * 1000) raises ZeroDivisionError on rate 0
InitializeDataObject ==
    /\ boot.at = "data"
    /\ frames' = <<>>
    /\ audio_data' = <<>>
    /\ annotations' = EmptyMap
    /\ metadata' = <<>>
    /\ curr_frame' = 0
    /\ max_frames' = reported_frame_count
    /\ boot' = [boot EXCEPT !.data = TRUE,
                            !.at = IF reported_fps = 0 THEN "raised" ELSE "control"]
    /\ UNCHANGED <<capVars, strokeVars, playVars, command_queue, threadVars,
                   fileVars, apVars, renderVars, gapVars, histVars>>

\* VideoPlayer._initialize_control_window
InitializeControlWindow ==
    /\ boot.at = "control"
    /\ boot' = [boot EXCEPT !.window = TRUE, !.at = "thread"]
    /\ UNCHANGED <<dataVars, capVars, strokeVars, playVars, command_queue, threadVars,
                   fileVars, apVars, renderVars, gapVars, histVars>>

\* self.video_thread = threading.Thread(target=self.main_loop); self.video_thread.start()
StartThread ==
    /\ boot.at = "thread"
    /\ boot' = [boot EXCEPT !.thread = TRUE, !.at = "mainloop"]
    /\ pc' = "loop"
    /\ UNCHANGED <<dataVars, capVars, strokeVars, playVars, command_queue, cpc, now,
                   fileVars, apVars, renderVars, gapVars, histVars>>

\* self.control_window.mainloop()
EnterMainloop ==
    /\ boot.at = "mainloop"
    /\ boot' = [boot EXCEPT !.at = "running"]
    /\ cpc' = "mainloop"
    /\ UNCHANGED <<dataVars, capVars, strokeVars, playVars, command_queue, pc, now,
                   fileVars, apVars, renderVars, gapVars, histVars>>

(***************************************************************************)
(* The capture session: state after VideoPlayer.start() has opened the     *)
(* decoder, created the Data object and started the capture loop thread.   *)
(***************************************************************************)
InitData ==
    /\ frames = <<>>
    /\ audio_data = <<>>
    /\ annotations = EmptyMap
    /\ metadata = <<>>
    /\ max_frames = FrameCount
    /\ curr_frame = 0

InitPlayer ==
    /\ cap_open = TRUE
    /\ cap_pos = 0
    /\ paused = FALSE
    /\ drawing = FALSE
    /\ curr_frame_idx = 0
    /\ pbar_n = 0
    /\ pause_frame = Unset
    /\ last_frame_time = Unset
    /\ start_point = <<>>
    /\ annotation_chunk = <<>>
    /\ overlay = {}
    /\ frame_shown = Unset
    /\ command_queue = <<>>
    /\ pc = "loop"
    /\ cpc = "mainloop"
    /\ now = 0

InitRest ==
    /\ video_file = Absent
    /\ audio_file = Absent
    /\ final_file = Absent
    /\ json_file = EmptyMap
    /\ save_log = <<>>
    /\ ap_pos = 0
    /\ ap_chunk = <<>>
    /\ ap_shown = <<>>
    /\ stroke = <<>>
    /\ render_vp = [long \in BOOLEAN |->
                      [start_point |-> <<>>, annotation_chunk |-> <<>>, drawn |-> {},
                       lines |-> {}]]
    /\ render_ap = [long \in BOOLEAN |->
                      [annotation_chunk |-> <<>>, drawn |-> {}, lines |-> {}]]
    /\ video_gaps = <<>>
    /\ synced = <<>>
    /\ env_count = 0
    /\ stale = {}
    /\ appended = <<>>
    /\ last_event = NoEvent

Init ==
    /\ InitData
    /\ InitPlayer
    /\ InitRest
    /\ boot = Started
    /\ long_annotations \in BOOLEAN

Next ==
    \/ LoopTest
    \/ HandleCommands
    \/ ProcessFrame
    \/ MouseEvent
    \/ EndTick
    \/ AudioCallback
    \/ Enqueue
    \/ CloseRelease
    \/ SaveVideo
    \/ SaveAudio
    \/ SaveMux
    \/ SaveJson
    \/ Join

Spec == Init /\ [][Next]_vars

\* The capture loop thread is scheduled: a step of main_loop that can be taken is
\* eventually taken (the sleep of _manage_frame_delay is bounded).
SpecFair ==
    /\ Init
    /\ [][Next]_vars
    /\ WF_vars(LoopTest)
    /\ WF_vars(HandleCommands)
    /\ WF_vars(ProcessFrame)
    /\ WF_vars(EndTick)

(***************************************************************************)
(* The store driven directly: any sequence of add_curr_frame,              *)
(* add_annotation and restarts, with arbitrary index arguments.            *)
(***************************************************************************)
StoreAppend ==
    /\ Len(frames) < MaxTicks
    /\ \E org_frame_idx \in {0, MaxIdx}, frame_idx \in 0..MaxIdx :
          /\ add_curr_frame(org_frame_idx, frame_idx, org_frame_idx, 0,
                            Len(frames) * frame_delay)
          /\ appended' = Append(appended, <<org_frame_idx, frame_idx>>)
    /\ last_event' = NoEvent
    /\ UNCHANGED <<capVars, strokeVars, playVars, command_queue, threadVars, fileVars, boot,
                   apVars, renderVars, gapVars, env_count, stale>>

StoreAnnotate ==
    /\ \E command \in Commands, point \in Points :
          /\ add_annotation(command, point)
          /\ last_event' = [event |-> command, point |-> point, was_drawing |-> FALSE,
                            before |-> last_entry_anno]
    /\ UNCHANGED <<capVars, strokeVars, playVars, command_queue, threadVars, fileVars, boot,
                   apVars, renderVars, gapVars, env_count, stale, appended>>

StoreRestart ==
    /\ clean_and_reseed(FrameCount)
    /\ appended' = <<>>
    /\ last_event' = NoEvent
    /\ UNCHANGED <<capVars, strokeVars, playVars, command_queue, threadVars, fileVars, boot,
                   apVars, renderVars, gapVars, env_count, stale>>

InitStore ==
    /\ InitData
    /\ InitPlayer
    /\ InitRest
    /\ boot = Started
    /\ long_annotations = FALSE

NextStore ==
    \/ StoreAppend
    \/ StoreAnnotate
    \/ StoreRestart

SpecStore == InitStore /\ [][NextStore]_vars

(***************************************************************************)
(* The capture loop and its command queue while the session stays open:    *)
(* ticks, pointer events, audio callbacks and any value put on the queue.  *)
(***************************************************************************)
NextQueue ==
    \/ LoopTest
    \/ HandleCommands
    \/ ProcessFrame
    \/ MouseEvent
    \/ EndTick
    \/ AudioCallback
    \/ EnqueueAny

SpecQueue == Init /\ [][NextQueue]_vars

(***************************************************************************)
(* The open session with seeks that are not clamped: VideoPlayer.seek      *)
(* hands any frame number to cap.set, also one at or past the end of the   *)
(* stream, after which cap.read() reports end-of-stream.                   *)
(***************************************************************************)
PastEndSeeks == {[verb |-> "seek", arg |-> FrameCount]}

EnqueueSeekAnywhere == Put(CommandValues \cup PastEndSeeks)

NextEos ==
    \/ LoopTest
    \/ HandleCommands
    \/ ProcessFrame
    \/ MouseEvent
    \/ EndTick
    \/ AudioCallback
    \/ EnqueueSeekAnywhere

SpecEos == Init /\ [][NextEos]_vars

(***************************************************************************)
(* A long undisturbed capture: up to MaxOverlayTicks ticks with no command *)
(* and no close, pointer events between them.  A tick here is the end of   *)
(* the previous tick (pbar.update, frame delay), the loop test and         *)
(* _process_video_frame with an empty queue, up to cv2.waitKey.            *)
(***************************************************************************)
MaxOverlayTicks == 8     \* ticks of the long capture

OverlayTick ==
    /\ pc \in {"loop", "wait"}
    /\ Len(frames) < MaxOverlayTicks
    /\ ~paused
    /\ LET n   == IF pc = "wait" THEN pbar_n + 1 ELSE pbar_n
           t   == IF pc = "wait" THEN now + frame_delay ELSE now
           ret == read_ok
       IN  /\ pbar_n' = n
           /\ now' = t
           /\ cap_pos' = IF ret THEN cap_pos + 1 ELSE cap_pos
           /\ curr_frame_idx' = IF ret THEN cap_pos + 1 ELSE curr_frame_idx
           /\ pause_frame' = IF ret THEN cap_pos ELSE pause_frame
           /\ last_frame_time' = IF ret THEN pos_msec(cap_pos + 1) ELSE last_frame_time
           /\ frame_shown' = IF ret THEN cap_pos ELSE last_frame
           /\ IF drawing /\ draw_raises
              THEN /\ pc' = "crashed"
                   /\ UNCHANGED <<dataVars, start_point, annotation_chunk, overlay,
                                  appended>>
              ELSE /\ pc' = "wait"
                   /\ IF drawing THEN draw_annotations
                      ELSE /\ overlay' = {}
                           /\ UNCHANGED <<start_point, annotation_chunk>>
                   /\ add_curr_frame(curr_frame_idx', n, pause_frame',
                                     draw_timer(last_frame_time'), t)
                   /\ appended' = Append(appended, <<curr_frame_idx', n>>)
    /\ last_event' = NoEvent
    /\ UNCHANGED <<cap_open, long_annotations, paused, drawing, command_queue, cpc,
                   fileVars, boot, apVars, renderVars, gapVars, env_count, stale>>

NextOverlay ==
    \/ OverlayTick
    \/ MouseEvent

SpecOverlay == Init /\ [][NextOverlay]_vars

(***************************************************************************)
(* A session from the call of VideoPlayer.start(): the file may be         *)
(* missing, the decoder may not open or not decode; nothing exists yet.    *)
(***************************************************************************)
InitStart ==
    /\ InitData
    /\ cap_open = FALSE
    /\ cap_pos = 0
    /\ paused = FALSE
    /\ drawing = FALSE
    /\ curr_frame_idx = 0
    /\ pbar_n = 0
    /\ pause_frame = Unset
    /\ last_frame_time = Unset
    /\ start_point = <<>>
    /\ annotation_chunk = <<>>
    /\ overlay = {}
    /\ frame_shown = Unset
    /\ command_queue = <<>>
    /\ pc = "unstarted"
    /\ cpc = "unstarted"
    /\ now = 0
    /\ InitRest
    /\ \E file_exists \in BOOLEAN, decoder \in Decoders :
          boot = [at |-> "validate", file_exists |-> file_exists, decoder |-> decoder,
                  data |-> FALSE, window |-> FALSE, thread |-> FALSE]
    /\ long_annotations \in BOOLEAN

NextStart ==
    \/ ValidateFile
    \/ InitializeVideoCapture
    \/ InitializeDataObject
    \/ InitializeControlWindow
    \/ StartThread
    \/ EnterMainloop
    \/ Next

SpecStart == InitStart /\ [][NextStart]_vars

(***************************************************************************)
(* The gap reconciler applied to a finished store: the frame and audio     *)
(* timestamps are drawn from a grid, non-decreasing as perf_counter gives  *)
(* them, or are those of the documented scenario.                          *)
(***************************************************************************)
MaxGapFrames == 4    \* frames of a finished store
MaxChunks    == 3    \* audio chunks of a finished store
MaxGrid      == 6    \* grid points of the timestamps
TimeStep     == 50   \* distance of two grid points, in milliseconds

GridTimes == {k * TimeStep : k \in 0..MaxGrid}

RECURSIVE SeqsUpTo(_, _)
SeqsUpTo(T, n) ==
    IF n = 0 THEN {<<>>}
    ELSE LET shorter == SeqsUpTo(T, n - 1)
         IN  {Append(q, t) : q \in {r \in shorter : Len(r) = n - 1},
                             t \in T} \cup shorter

Sorted(q) == \A i \in 1..(Len(q) - 1) : q[i] <= q[i + 1]

TimeLines(T, n) == {q \in SeqsUpTo(T, n) : Sorted(q)}

frames_at(times) ==
    [i \in 1..Len(times) |-> [ts |-> times[i], idx |-> i - 1, frame |-> i - 1]]

audio_at(times) ==
    [i \in 1..Len(times) |-> [ts |-> times[i], chunk |-> i - 1]]

ScenarioFrames == <<0, 50, 300, 350>>
ScenarioAudio  == <<0, 40, 100, 200, 320, 400>>

InitGap ==
    /\ \/ \E ft \in TimeLines(GridTimes, MaxGapFrames),
             at \in TimeLines(GridTimes, MaxChunks) :
             /\ frames = frames_at(ft)
             /\ audio_data = audio_at(at)
       \/ /\ frames = frames_at(ScenarioFrames)
          /\ audio_data = audio_at(ScenarioAudio)
    /\ annotations = EmptyMap
    /\ metadata = <<>>
    /\ max_frames = FrameCount
    /\ curr_frame = 0
    /\ InitPlayer
    /\ InitRest
    /\ boot = Started
    /\ long_annotations = FALSE

\* combined_audio on the finished store (it calls identify_video_gaps first)
Reconcile ==
    /\ pc = "loop"
    /\ pc' = "reconciled"
    /\ video_gaps' = identify_video_gaps(frames, GapThreshold)
    /\ synced' = combined_audio(frames, audio_data)
    /\ UNCHANGED <<dataVars, capVars, strokeVars, playVars, command_queue, cpc, now,
                   fileVars, boot, apVars, renderVars, histVars>>

SpecGap == InitGap /\ [][Reconcile]_vars

(***************************************************************************)
(* A stroke replayed command by command through VideoPlayer's and          *)
(* AnnotatedPlayer's renderers, under both values of long_annotations.     *)
(***************************************************************************)
MaxStroke == 3       \* commands of a replayed stroke

vp_replay(long, r, command, point) ==
    LET d == vp_draw(long, r.start_point, r.annotation_chunk, command, point)
    IN  [start_point |-> d.start_point, annotation_chunk |-> d.annotation_chunk,
         drawn |-> r.drawn \cup d.lines, lines |-> d.lines]

ap_replay(long, r, command, point) ==
    LET d == ap_draw(long, r.annotation_chunk, command, point)
    IN  [annotation_chunk |-> d.annotation_chunk, drawn |-> r.drawn \cup d.lines,
         lines |-> d.lines]

Replay ==
    /\ Len(stroke) < MaxStroke
    /\ \E command \in Commands, point \in Points :
          /\ stroke' = Append(stroke, <<command, point>>)
          /\ render_vp' = [long \in BOOLEAN |->
                              vp_replay(long, render_vp[long], command, point)]
          /\ render_ap' = [long \in BOOLEAN |->
                              ap_replay(long, render_ap[long], command, point)]
    /\ UNCHANGED <<dataVars, capVars, strokeVars, playVars, command_queue, threadVars,
                   fileVars, boot, apVars, gapVars, histVars>>

SpecRender == InitStore /\ [][Replay]_vars

(***************************************************************************)
(* Round trip: a timeline captured tick by tick (no command, no stall),    *)
(* saved by save_data and played by AnnotatedPlayer.                       *)
(***************************************************************************)
\* One capture tick of an undisturbed session: the decoder is at the logical index
TimelineAppend ==
    /\ cpc = "mainloop"
    /\ Len(frames) < MaxTicks
    /\ LET n == Len(frames) IN
       /\ add_curr_frame(n + 1, n, n, draw_timer(pos_msec(n + 1)), n * frame_delay)
       /\ appended' = Append(appended, <<n + 1, n>>)
    /\ last_event' = NoEvent
    /\ UNCHANGED <<capVars, strokeVars, playVars, command_queue, threadVars, fileVars, boot,
                   apVars, renderVars, gapVars, env_count, stale>>

TimelineAnnotate ==
    /\ cpc = "mainloop"
    /\ StoreAnnotate

TimelineAudio ==
    /\ cpc = "mainloop"
    /\ audio_data = <<>>
    /\ add_audio_data(Len(frames) * frame_delay, 0)
    /\ UNCHANGED <<capVars, strokeVars, playVars, command_queue, threadVars, fileVars, boot,
                   apVars, renderVars, gapVars, histVars>>

\* Data.save_data: the four stages in order, with nothing running beside them;
\* an exception in the video stage ends it there
SaveData ==
    /\ cpc = "mainloop"
    /\ IF video_write_raises
       THEN /\ cpc' = "aborted"
            /\ save_log' = <<"save_video">>
            /\ process_video_data
            /\ UNCHANGED <<audio_file, final_file, json_file, metadata>>
       ELSE /\ cpc' = "closed"
            /\ save_log' = <<"save_video", "save_audio", "save_mux", "save_json">>
            /\ LET video == IF frames = <<>> THEN Absent
                            ELSE written_frames(frames, 1, max_frames)
                   audio == IF Len(audio_data) > 0
                            THEN combined_audio(frames, audio_data)
                            ELSE Absent
               IN  final_file' = IF video # Absent /\ audio # Absent THEN video
                                 ELSE Absent
            /\ save_annotations
            /\ UNCHANGED <<video_file, audio_file>>
    /\ UNCHANGED <<frames, audio_data, annotations, max_frames, curr_frame, capVars,
                   strokeVars, playVars, command_queue, pc, now, boot, apVars,
                   renderVars, gapVars, histVars>>

\* One round of the loop of AnnotatedPlayer.show: cap.read(), frame_number =
\* cap.get(CAP_PROP_POS_FRAMES), _process_frame
ShowFrame ==
    /\ cpc = "closed"
    /\ final_file # Absent
    /\ ap_pos < Len(final_file)
    /\ LET frame_number == ap_pos + 1
           key == ToString(frame_number)
           found == key \in DOMAIN json_file
           anno == IF found THEN json_file[key].anno ELSE <<>>
           d == IF anno # <<>>
                THEN ap_draw(long_annotations, ap_chunk, anno[1], anno[2])
                ELSE [annotation_chunk |-> ap_chunk, lines |-> {}]
       IN  /\ ap_pos' = frame_number
           /\ ap_chunk' = d.annotation_chunk
           /\ ap_shown' = Append(ap_shown,
                 [frame |-> final_file[ap_pos + 1],
                  key |-> IF found THEN key ELSE "",
                  anno |-> anno,
                  time_str |-> IF found THEN json_file[key].time_str ELSE Unset,
                  lines |-> d.lines])
    /\ UNCHANGED <<dataVars, capVars, strokeVars, playVars, command_queue, threadVars,
                   fileVars, boot, renderVars, gapVars, histVars>>

InitPlayback ==
    /\ InitData
    /\ InitPlayer
    /\ InitRest
    /\ boot = Started
    /\ long_annotations \in BOOLEAN

NextPlayback ==
    \/ TimelineAppend
    \/ TimelineAnnotate
    \/ TimelineAudio
    \/ SaveData
    \/ ShowFrame

SpecPlayback == InitPlayback /\ [][NextPlayback]_vars

(***************************************************************************)
(* Properties.                                                             *)
(***************************************************************************)

\* C1: between two restarts the k-th add_curr_frame (k from 0) stores its frame at
\* logical index k and creates annotation key k, whatever frame_idx / org_frame_idx
\* it is given; no logical index is reused or skipped.
C1_MonotonicIndexing ==
    /\ Len(frames) = Len(appended)
    /\ DOMAIN annotations = 0..(Len(appended) - 1)
    /\ \A k \in 0..(Len(appended) - 1) :
          /\ frames[k + 1].idx = appended[k + 1][2]
          /\ frames[k + 1].frame = appended[k + 1][1]
          /\ annotations[k].idx = appended[k + 1][2]
          /\ annotations[k].org_idx = appended[k + 1][1]

\* Two appends whose supplied index regressed, stored at logical indices 0 and 1.
C1_Witness ==
    /\ Len(appended) = 2
    /\ appended[2][2] < appended[1][2]
    /\ DOMAIN annotations = {0, 1}
    /\ annotations[1].idx = appended[2][2]

SavePositions == {"save_video", "save_audio", "save_mux", "save_json"}

\* C2: close(save=True) stops the decoder, stops the audio stream, joins the capture
\* loop thread and only then starts save_data: save_data never executes while the
\* capture loop thread can still append a frame (it is inside a tick, before
\* add_curr_frame).
C2_SaveOnlyAfterJoin ==
    cpc \in SavePositions => pc \notin {"cmd", "read"}

RestartApplied ==
    /\ pc = "cmd"
    /\ pc' = "read"
    /\ command_queue # <<>>
    /\ Head(command_queue).verb = "restart"

CommandApplied ==
    /\ pc = "cmd"
    /\ pc' = "read"
    /\ command_queue # <<>>

\* C3: the step that applies a restart leaves the frame list, the audio list and the
\* annotation map empty, max_frames at the decoder's reported frame count and the
\* decoder cursor at 0, and no command that was queued when a restart was applied is
\* applied by a later tick.
C3_RestartClears ==
    [][ /\ RestartApplied =>
              /\ frames' = <<>>
              /\ audio_data' = <<>>
              /\ annotations' = EmptyMap
              /\ metadata' = <<>>
              /\ max_frames' = reported_frame_count
              /\ cap_pos' = 0
        /\ CommandApplied => Head(command_queue).id \notin stale ]_vars

\* A restart was applied by this tick, after earlier ticks had captured frames, and
\* it discarded a queued command.
C3_Witness ==
    /\ pc = "read"
    /\ now > 0
    /\ frames = <<>>
    /\ stale # {}
    /\ command_queue = <<>>

\* C7: a pointer-move or pointer-up with no open stroke (no pointer-down before it)
\* leaves the last frame's annotation entry as it was, and a 'start' command
\* replaces whatever command and point the entry held by <<"start", point>>.
C7_StrokeGuards ==
    /\ (last_event.event \in {"move", "up"} /\ ~last_event.was_drawing) =>
          /\ last_entry_anno = last_event.before
          /\ ~drawing
    /\ (last_event.event = "down" /\ ~last_event.was_drawing) =>
          last_entry_anno = <<"start", last_event.point>>

\* A 'start' replaced another point that the entry held.
C7_Witness ==
    /\ last_event.event = "down"
    /\ ~last_event.was_drawing
    /\ last_event.before # <<>>
    /\ last_event.before[2] # last_event.point
    /\ last_entry_anno = <<"start", last_event.point>>

\* C8: pointer-down in Idle records 'start' on the last logical frame and enters
\* Drawing, pointer-move in Drawing records 'move', pointer-up in Drawing records
\* 'end' and returns to Idle, every other event records nothing; also when several
\* pointer events fall on one logical frame.
C8_StrokeMachine ==
    last_event.event # "none" =>
       /\ get_frames_length > 0
       /\ CASE last_event.event = "down" /\ ~last_event.was_drawing ->
                  drawing /\ last_entry_anno = <<"start", last_event.point>>
            [] last_event.event = "move" /\ last_event.was_drawing ->
                  drawing /\ last_entry_anno = <<"move", last_event.point>>
            [] last_event.event = "up" /\ last_event.was_drawing ->
                  ~drawing /\ last_entry_anno = <<"end", last_event.point>>
            [] OTHER ->
                  drawing = last_event.was_drawing /\ last_entry_anno = last_event.before

in_gap(ts, gaps) == \E k \in 1..Len(gaps) : gaps[k][1] <= ts /\ ts < gaps[k][2]

outside_gaps(chunk) == ~in_gap(chunk.ts, video_gaps)

payloads(au) == [i \in 1..Len(au) |-> au[i].chunk]

IsScenario ==
    /\ frames = frames_at(ScenarioFrames)
    /\ audio_data = audio_at(ScenarioAudio)

\* C4: for chunks with non-decreasing timestamps combined_audio outputs, in their
\* order, exactly the chunks whose timestamp lies in no detected gap interval
\* [gap_start, gap_end); for frames at 0, 50, 300, 350 ms and chunks at 0, 40, 100,
\* 200, 320, 400 ms the output is the chunks at 0, 40, 320, 400 ms.
C4_GapExclusion ==
    pc = "reconciled" =>
       /\ synced = payloads(SelectSeq(audio_data, outside_gaps))
       /\ IsScenario => synced = <<0, 1, 4, 5>>

\* The scenario of the claim, reconciled.
C4_Witness ==
    /\ pc = "reconciled"
    /\ IsScenario
    /\ synced = <<0, 1, 4, 5>>

\* A gap was detected, a chunk stamped exactly at its end was kept and a chunk
\* stamped exactly at its start was dropped.
C4_WitnessEdges ==
    /\ pc = "reconciled"
    /\ Len(video_gaps) = 1
    /\ \E i, j \in 1..Len(audio_data) :
          /\ audio_data[i].ts = video_gaps[1][1]
          /\ audio_data[j].ts = video_gaps[1][2]
          /\ synced = <<audio_data[j].chunk>>

gap_indices == {i \in 2..Len(frames) : frames[i].ts - frames[i - 1].ts > GapThreshold}

\* C5: identify_video_gaps returns, in frame order, exactly the pairs of consecutive
\* frame timestamps that differ by strictly more than the threshold (100 ms); fewer
\* than two frames give no gap; frames at 0, 50, 300, 350 ms give the one gap
\* (50, 300).
C5_GapDetection ==
    pc = "reconciled" =>
       /\ Len(video_gaps) = Cardinality(gap_indices)
       /\ \A k \in 1..Len(video_gaps) :
             \E i \in gap_indices :
                /\ video_gaps[k] = <<frames[i - 1].ts, frames[i].ts>>
                /\ Cardinality({j \in gap_indices : j < i}) = k - 1
       /\ Len(frames) < 2 => video_gaps = <<>>
       /\ IsScenario => video_gaps = <<<<50, 300>>>>

\* Two consecutive frames exactly one threshold apart (no gap) followed by a frame
\* more than a threshold later (a gap).
C5_Witness ==
    /\ pc = "reconciled"
    /\ Len(frames) = 3
    /\ frames[2].ts - frames[1].ts = GapThreshold
    /\ frames[3].ts - frames[2].ts > GapThreshold
    /\ video_gaps = <<<<frames[2].ts, frames[3].ts>>>>

\* C6: when no gap is detected combined_audio returns every stored chunk, in stored
\* order, none dropped, duplicated or reordered.
C6_NoGapKeepsAll ==
    (pc = "reconciled" /\ video_gaps = <<>>) => synced = payloads(audio_data)

\* Several frames without a gap and several chunks, all of them kept.
C6_Witness ==
    /\ pc = "reconciled"
    /\ Len(frames) >= 2
    /\ video_gaps = <<>>
    /\ Len(audio_data) = MaxChunks
    /\ synced = payloads(audio_data)

TwoPointStroke(P0, P1) == stroke = <<<<"start", P0>>, <<"end", P1>>>>

\* C9: for a stroke of exactly two points ('start' at P0, 'end' at P1) rendering with
\* long_annotations=True and with long_annotations=False draws the same set of
\* segments, the single segment P0 to P1, in VideoPlayer and in AnnotatedPlayer.
C9_PoliciesAgree ==
    \A P0, P1 \in Points :
       TwoPointStroke(P0, P1) =>
          /\ render_vp[TRUE].drawn = {<<P0, P1>>}
          /\ render_vp[FALSE].drawn = {<<P0, P1>>}
          /\ render_ap[TRUE].drawn = {<<P0, P1>>}
          /\ render_ap[FALSE].drawn = {<<P0, P1>>}

\* C10: after save_annotations has written a timeline with indices 0..N-1 and
\* AnnotatedPlayer plays the companion video, the player looks up entry i when it
\* shows decoded frame i and replays the command, point and time label written for
\* index i.
C10_RoundTrip ==
    \A j \in 1..Len(ap_shown) :
       LET i == j - 1 IN
       ToString(i) \in DOMAIN json_file =>
          /\ ap_shown[j].key = ToString(i)
          /\ ap_shown[j].anno = json_file[ToString(i)].anno
          /\ ap_shown[j].time_str = json_file[ToString(i)].time_str

KeysMatchFrames == DOMAIN annotations = 0..(Len(frames) - 1)

\* C11: in every state reached by ticks, pointer events, seeks and restarts the
\* integer keys of the annotation map are exactly 0..len(frames)-1 (one entry per
\* appended frame, none for a frame not yet appended), an append leaves the earlier
\* entries as they were, and add_annotation writes only the entry of the last frame.
C11_Lockstep ==
    [][ /\ KeysMatchFrames
        /\ KeysMatchFrames'
        /\ Len(frames') = Len(frames) + 1 =>
              \A k \in DOMAIN annotations : annotations'[k] = annotations[k]
        /\ Len(frames') = Len(frames) =>
              \A k \in DOMAIN annotations :
                 k # Len(frames) - 1 => annotations'[k] = annotations[k] ]_vars

\* A pointer event wrote the entry of frame 1 after another had written frame 0's.
C11_Witness ==
    /\ Len(frames) = 2
    /\ DOMAIN annotations = {0, 1}
    /\ annotations[0].anno # <<>>
    /\ annotations[1].anno # <<>>
    /\ last_event.event # "none"

AppendStep == Len(appended') = Len(appended) + 1

\* C12: max_frames never decreases across add_curr_frame calls, it advances by
\* exactly 1 exactly on an append whose supplied index equals the current max_frames,
\* add_annotation leaves it alone, and a restart sets it to the decoder's reported
\* frame count.
C12_MaxFrames ==
    [][ /\ AppendStep =>
              /\ max_frames' >= max_frames
              /\ max_frames' = IF appended'[Len(appended')][2] = max_frames
                               THEN max_frames + 1 ELSE max_frames
        /\ (~AppendStep /\ frames' = frames) => max_frames' = max_frames
        /\ (~AppendStep /\ frames' # frames) =>
              (frames' = <<>> /\ max_frames' = reported_frame_count) ]_vars

\* The counter advanced on an append at the high-water mark and stayed there on a
\* later append with a lower index.
C12_Witness ==
    /\ Len(appended) = 2
    /\ appended[1][2] = FrameCount
    /\ appended[2][2] < FrameCount
    /\ max_frames = FrameCount + 1

TickStep == pc = "cmd" /\ pc' = "read"

IsPrefix(p, q) == Len(p) <= Len(q) /\ SubSeq(q, 1, Len(p)) = p

KnownVerbs == {"pause", "seek", "restart"}

\* C13: a tick takes at most one command off the queue, the oldest one, and applies
\* it (a restart also discards the rest); no other step removes a command; a tick
\* that finds the queue empty or dequeues a value that is none of pause, seek,
\* restart changes no playback or timeline state through command handling.
C13_OneCommandPerTick ==
    [][ /\ \A i, j \in 1..Len(command_queue') :
              i < j => command_queue'[i].id < command_queue'[j].id
        /\ ~TickStep => IsPrefix(command_queue, command_queue')
        /\ (TickStep /\ command_queue = <<>>) =>
              UNCHANGED <<dataVars, capVars, playVars, command_queue>>
        /\ (TickStep /\ command_queue # <<>>) =>
              LET command == Head(command_queue) IN
              /\ command.verb # "restart" => command_queue' = Tail(command_queue)
              /\ command.verb = "restart" => command_queue' = <<>>
              /\ command.verb = "pause" => paused' = ~paused
              /\ command.verb = "seek" => curr_frame_idx' = command.arg
              /\ command.verb \notin KnownVerbs =>
                    UNCHANGED <<dataVars, capVars, playVars>> ]_vars

\* The first tick applied a pause and left the two commands queued behind it.
C13_Witness ==
    /\ pc = "read"
    /\ pbar_n = 0
    /\ frames = <<>>
    /\ paused
    /\ Len(command_queue) = 2

\* A tick dequeued an unrecognised value ahead of a pending seek.
C13_WitnessUnknown ==
    /\ pc = "read"
    /\ pbar_n = 0
    /\ env_count = 2
    /\ ~paused
    /\ stale = {}
    /\ Len(command_queue) = 1
    /\ Head(command_queue).id = 1
    /\ Head(command_queue).verb = "seek"

SeekApplied ==
    /\ TickStep
    /\ command_queue # <<>>
    /\ Head(command_queue).verb = "seek"

\* C14: applying a seek moves the decoder cursor, curr_frame_idx and Data.curr_frame
\* to the target and leaves the frame list, the annotation map, the audio list and
\* max_frames exactly as they were.
C14_SeekKeepsTimeline ==
    [][ SeekApplied =>
           /\ UNCHANGED <<frames, annotations, metadata, audio_data, max_frames>>
           /\ UNCHANGED <<paused, drawing, pbar_n, pause_frame, last_frame_time>>
           /\ cap_pos' = Head(command_queue).arg
           /\ curr_frame_idx' = Head(command_queue).arg
           /\ curr_frame' = Head(command_queue).arg ]_vars

\* A seek to frame 0 was applied on the second tick: the cursor is back at 0 and the
\* frame captured by the first tick is still stored.
C14_Witness ==
    /\ pc = "read"
    /\ Len(frames) = 1
    /\ cap_pos = 0
    /\ curr_frame_idx = 0
    /\ curr_frame = 0

\* C15: get_last_anno on a store with zero frames (or zero annotation entries)
\* returns None and does not raise, also right after a restart.
C15_LastAnnoOnEmpty ==
    (get_frames_length = 0 \/ get_annotations_length = 0) =>
       /\ get_last_anno = <<>>
       /\ ~get_last_anno_raises

\* No frame is stored while the annotation map is not empty (it holds "metadata").
C15_Witness ==
    /\ get_frames_length = 0
    /\ get_annotations_length = 1
    /\ get_last_anno = <<>>

\* A restart has just emptied a store that held frames.
C15_WitnessRestart ==
    /\ pc = "read"
    /\ now > 0
    /\ pbar_n = 0
    /\ get_frames_length = 0
    /\ get_annotations_length = 0
    /\ get_last_anno = <<>>

SaveOrder == <<"save_video", "save_audio", "save_mux", "save_json">>

SaveEnded == save_log # <<>> /\ cpc \in {"join", "closed", "aborted"}

\* C16: save_data runs video write, audio write, mux plus cleanup, annotation write
\* in that order; the mux step is invoked exactly once per save and never before
\* the audio stage has finished.
C16_StageOrder ==
    /\ IsPrefix(save_log, SaveOrder)
    /\ SaveEnded => Cardinality({i \in 1..Len(save_log) : save_log[i] = "save_mux"}) = 1

\* C17: when an earlier stage of save_data fails (raises or reports failure) the
\* annotation-timeline write is still attempted.
C17_JsonAlwaysAttempted ==
    SaveEnded => \E i \in 1..Len(save_log) : save_log[i] = "save_json"

MuxStep == cpc = "save_mux" /\ cpc' # "save_mux"

MuxSucceeds == video_file # Absent /\ audio_file # Absent

\* C18: when the mux step fails the intermediate video-only and audio-only files
\* are not deleted; they are deleted only after a mux that succeeded.
C18_CleanupOnlyAfterMux ==
    [][ (MuxStep /\ ~MuxSucceeds) =>
           (video_file' = video_file /\ audio_file' = audio_file) ]_vars

\* C19: when the source file is missing or the decoder cannot be opened, start()
\* stops there: no Data object is created, no capture thread is started and no
\* control window is opened.
C19_NoPartialSession ==
    (~boot.file_exists \/ boot.decoder # "ok") =>
       (~boot.data /\ ~boot.thread /\ ~boot.window)

PausedTick == pc = "read" /\ pc' # "read" /\ paused

\* C20: on every tick taken while paused the decoder cursor is not advanced, the
\* frame used is the cached last-read frame, the time label stored for the appended
\* frame is the label of the last successfully read frame, and exactly one frame
\* and one annotation entry are appended.
C20_PausedTick ==
    [][ PausedTick =>
           /\ cap_pos' = cap_pos
           /\ UNCHANGED <<pause_frame, last_frame_time, curr_frame_idx>>
           /\ Len(frames') = Len(frames) + 1
           /\ frames'[Len(frames')].frame = pause_frame
           /\ DOMAIN annotations' = DOMAIN annotations \cup {Len(frames)}
           /\ Len(frames) \notin DOMAIN annotations
           /\ annotations'[Len(frames)].time_str = draw_timer(last_frame_time) ]_vars

EosTick == pc = "read" /\ pc' = "wait" /\ ~paused /\ ~read_ok

\* C21: once the decoder reports end-of-stream, an unpaused tick shows the last
\* successfully read frame, stores that frame and stores the elapsed-time label of
\* the last successful read: the cached frame and time do not change and the label
\* does not advance.
C21_EosFreeze ==
    [][ EosTick =>
           /\ UNCHANGED <<pause_frame, last_frame_time, cap_pos>>
           /\ frame_shown' = pause_frame
           /\ frames'[Len(frames')].frame = pause_frame
           /\ annotations'[Len(frames)].time_str = draw_timer(last_frame_time) ]_vars

\* C22: the elapsed-time label stored with a frame is computed from the wall-clock
\* time elapsed since the capture epoch (the frame's timestamp), not from the
\* decoder's presentation time: frames captured in different wall-clock seconds
\* carry different labels.
C22_WallClockLabel ==
    \A j, k \in DOMAIN annotations :
       draw_timer(annotations[j].timestamp) # draw_timer(annotations[k].timestamp) =>
          annotations[j].time_str # annotations[k].time_str

\* C23: for every sequence of stroke commands and for each value of
\* long_annotations, AnnotatedPlayer draws on each frame the same set of line
\* segments as VideoPlayer draws for the same command sequence.
C23_RenderersAgree ==
    \A long \in BOOLEAN : render_ap[long].lines = render_vp[long].lines

\* C24: after add_annotation calls that target the same logical frame the entry
\* holds exactly one <<command, point>> pair, the command and the point of the most
\* recent call: a 'start' stored by an earlier call does not persist over a later
\* 'move' or 'end', and no earlier point is kept.
C24_LastCommandWins ==
    (last_event.event \in Commands /\ get_frames_length > 0) =>
       last_entry_anno = <<last_event.event, last_event.point>>

NoTargetFrame ==
    get_frames_length = 0 \/ (get_frames_length - 1) \notin DOMAIN annotations

AnnotateCall == last_event' # last_event /\ last_event'.event \in Commands

\* C29: an add_annotation call made when the store holds no frame, or when the last
\* logical index has no annotation entry, returns without effect: frames,
\* annotations, audio and max_frames stay as they were.
C29_AnnotateWithoutFrame ==
    [][ (AnnotateCall /\ NoTargetFrame) =>
           UNCHANGED <<frames, annotations, metadata, audio_data, max_frames,
                       curr_frame>> ]_vars

\* An annotation command arrived on a store that holds no frame and no entry, and
\* the store is still empty.
C29_Witness ==
    /\ last_event.event \in Commands
    /\ get_frames_length = 0
    /\ annotations = EmptyMap
    /\ audio_data = <<>>
    /\ max_frames = FrameCount

FrameAppended == Len(frames') = Len(frames) + 1

RendererActed ==
    \/ overlay' # {}
    \/ start_point' # start_point
    \/ annotation_chunk' # annotation_chunk

\* C25: during live capture a tick draws the overlay of a recorded stroke command
\* (draws segments or moves the stroke renderer's state) only if the entry holding
\* that command has a logical index within 5 frames of the current frame count, and
\* what it draws is that command's overlay: a command recorded more than 5 frames
\* earlier is never redrawn.
C25_StaleWindow ==
    [][ (FrameAppended /\ RendererActed) =>
           \E k \in DOMAIN annotations :
              /\ annotations[k].anno # <<>>
              /\ get_frames_length - k <= StaleWindow
              /\ k - get_frames_length <= StaleWindow
              /\ overlay' = vp_draw(long_annotations, start_point, annotation_chunk,
                                    annotations[k].anno[1], annotations[k].anno[2]).lines
      ]_vars

\* A 'move' recorded on frame 1 is more than 5 frames old, the stroke is still open
\* and the latest tick drew nothing.
C25_Witness ==
    /\ get_frames_length = MaxOverlayTicks
    /\ drawing
    /\ annotations[1].anno # <<>>
    /\ annotations[1].anno[1] = "move"
    /\ \A k \in DOMAIN annotations : k > 1 => annotations[k].anno = <<>>
    /\ overlay = {}

\* The tick after a 'move' was recorded drew that command's segment.
C25_WitnessDrawn ==
    /\ get_frames_length = 3
    /\ annotations[1].anno # <<>>
    /\ annotations[1].anno[1] = "move"
    /\ overlay # {}

ControlStep == cpc' # cpc \/ Len(command_queue') > Len(command_queue)

CaptureStep == pc' # pc

\* C26: during a session the frame list and the annotation map are changed only by
\* steps of the capture loop thread (ticks and the pointer callbacks it runs inside
\* cv2.waitKey), the audio-chunk list only by the audio callback thread, and no step
\* of the control-surface thread changes any of them, in every interleaving
\* including restart and close(save=True).
C26_SingleWriter ==
    [][ /\ ControlStep => UNCHANGED <<frames, annotations, metadata, audio_data>>
        /\ CaptureStep => audio_data' = audio_data
        /\ (frames' # frames \/ annotations' # annotations \/ metadata' # metadata) =>
              (CaptureStep \/ (pc = "wait" /\ last_event' # last_event)) ]_vars

close_called == cpc \notin {"mainloop", "unstarted"}

loop_left == pc \in {"exit", "crashed"}

\* C27: after close() has released the decoder the capture loop starts no further
\* tick: a frame is appended only by the tick that was under way, so at most one
\* more frame is appended, and the thread leaves its loop, whether it was paused,
\* playing or at end-of-stream.
C27_LoopExits ==
    /\ [][ close_called =>
              /\ pc \in {"loop", "wait", "exit", "crashed"} =>
                    (pc' \in {"loop", "wait", "exit", "crashed"} /\ frames' = frames)
              /\ Len(frames') <= Len(frames) + 1 ]_vars
    /\ (close_called ~> loop_left)

\* The loop was left while paused, one frame after the video stage of the save had
\* written the frames stored until then.
C27_Witness ==
    /\ pc = "exit"
    /\ paused
    /\ video_file # Absent
    /\ Len(frames) = Len(video_file) + 1

AudioStage == cpc = "save_audio" /\ cpc' # cpc

AllChunksDropped == audio_data # <<>> /\ combined_audio(frames, audio_data) = <<>>

\* C28: when audio chunks were captured but gap reconciliation drops all of them,
\* the audio stage of the save does not fail and treats the empty result as "no
\* audio to merge": no audio file is written from it.
C28_EmptyAudioNotWritten ==
    [][ (AudioStage /\ AllChunksDropped) =>
           /\ cpc' = next_stage("save_audio")
           /\ audio_file' = audio_file ]_vars

\* C30: each annotation entry's 'idx' (the tick counter pbar.n handed to
\* add_curr_frame, reset together with the store on restart) equals the entry's own
\* logical index, and the index handed to add_curr_frame never exceeds max_frames,
\* so its "out of range" branch is never taken.
C30_IdxIsLogicalIndex ==
    [][ /\ \A k \in DOMAIN annotations' :
              annotations'[k].idx = k /\ frames'[k + 1].idx = k
        /\ AppendStep => appended'[Len(appended')][2] <= max_frames ]_vars

\* A restart applied by a later tick reset the counter: the frame appended after it
\* has index 0 again, which was the high-water mark, and advanced it.
C30_Witness ==
    /\ Len(frames) = 1
    /\ frames[1].ts > 0
    /\ annotations[0].idx = 0
    /\ max_frames = 1

(***************************************************************************)
(* A long session that ends with a save: up to MaxOverlayTicks ticks per   *)
(* take, which is more than the decoder has frames, 'restart' commands     *)
(* between ticks, then close(save=True) up to the video stage.             *)
(***************************************************************************)
\* One tick of the long capture; the loop test lets it start only while the
\* decoder is open.
LongTick ==
    /\ cap_open
    /\ OverlayTick

\* The start of a tick whose _handle_commands dequeues 'restart': the end of the
\* previous tick (frame delay), the loop test and VideoPlayer.restart; the rest of
\* that tick is the LongTick that follows, with pbar.n back at 0.
LongRestart ==
    /\ pc \in {"loop", "wait"}
    /\ cap_open
    /\ env_count < MaxInputs
    /\ env_count' = env_count + 1
    /\ restart
    /\ pc' = "loop"
    /\ now' = IF pc = "wait" THEN now + frame_delay ELSE now
    /\ last_event' = NoEvent
    /\ UNCHANGED <<strokeVars, pause_frame, last_frame_time, command_queue, cpc,
                   fileVars, boot, apVars, renderVars, gapVars, stale>>

NextLong ==
    \/ LongTick
    \/ LongRestart
    \/ CloseRelease
    \/ SaveVideo

SpecLong == Init /\ [][NextLong]_vars

VideoStage == cpc = "save_video" /\ cpc' # cpc

AllFrames == [i \in 1..Len(frames) |-> frames[i].frame]

\* C31: at save time every captured frame has an index below max_frames, so
\* process_video_data writes all captured frames in logical order and skips none,
\* whether the take has fewer, as many or more ticks than the decoder has frames,
\* and after any number of restarts.
C31_AllFramesWritten ==
    [][ VideoStage =>
           /\ \A i \in 1..Len(frames) : frames[i].idx = i - 1 /\ frames[i].idx < max_frames
           /\ frames # <<>> => video_file' = AllFrames ]_vars

\* A take of more ticks than the decoder has frames, recorded after a restart,
\* has been written whole.
C31_Witness ==
    /\ cpc \in {"save_audio", "aborted"}
    /\ Len(frames) > FrameCount
    /\ frames[1].ts > 0
    /\ video_file = AllFrames

FreezeRead == pc = "read" /\ pc' # pc /\ (paused \/ ~read_ok)

\* C32: whenever a tick reads the cached freeze-frame state (pause_frame on the
\* paused branch and in the append, last_frame_time on the paused or end-of-stream
\* branch), an earlier successful decoder read has already assigned it, in every
\* interleaving of commands with ticks, also when the first tick dequeues a pause
\* or its read fails.
C32_FreezeStateAssigned ==
    [][ FreezeRead => (pause_frame # Unset /\ last_frame_time # Unset) ]_vars

(***************************************************************************)
(* The session of Spec with one more tick, so that a save that writes two  *)
(* frames can overlap a third tick that runs with drawing = True.          *)
(***************************************************************************)
MaxDrawTicks == 3     \* capture ticks started in one run of SpecDraw

\* while self.cap.isOpened(), for up to MaxDrawTicks ticks
LoopTestDraw ==
    /\ pc = "loop"
    /\ \/ /\ cap_open
          /\ now < MaxDrawTicks * frame_delay
          /\ pc' = "cmd"
       \/ /\ ~cap_open
          /\ pc' = "exit"
    /\ UNCHANGED <<dataVars, capVars, strokeVars, playVars, command_queue, cpc, now,
                   fileVars, boot, apVars, renderVars, gapVars, histVars>>

NextDraw ==
    \/ LoopTestDraw
    \/ HandleCommands
    \/ ProcessFrame
    \/ MouseEvent
    \/ EndTick
    \/ AudioCallback
    \/ Enqueue
    \/ CloseRelease
    \/ SaveVideo
    \/ SaveAudio
    \/ SaveMux
    \/ SaveJson
    \/ Join

SpecDraw == Init /\ [][NextDraw]_vars

\* The tick reaches `if self.drawing: self.draw_annotations()` with drawing set
DrawingTick ==
    /\ pc = "read"
    /\ pc' # pc
    /\ drawing
    /\ FreezeRead => (pause_frame # Unset /\ last_frame_time # Unset)

\* C33: draw_annotations never runs on an annotation map that is empty or holds a
\* non-integer key: on every tick that runs with drawing = True the map has at least
\* one entry and integer keys only, so max() over its keys cannot fail; this
\* includes the first tick, the tick that applies a restart and a tick that
\* overlaps close(save=True).
C33_DrawOnIntegerKeys ==
    [][ DrawingTick =>
           /\ DOMAIN annotations # {}
           /\ metadata = <<>>
           /\ pc' # "crashed" ]_vars

(***************************************************************************)
(* annotate() for an existing top file: it creates done_event, constructs  *)
(* the VideoPlayer (whose __init__ runs start()), then waits on            *)
(* done_event; an exception out of the constructor is caught and logged.   *)
(* The user is taken to close the session at some time.                    *)
(***************************************************************************)
\* done_event.is_set(): VideoPlayer.close is the only place that sets it
done_event == cpc = "closed"

\* Where annotate() is: "constructing" inside VideoPlayer(...), which lasts while
\* control_window.mainloop() runs; "waiting" in done_event.wait(); "returned"
\* after the wait or after the except branch
annotate_at ==
    CASE boot.at = "raised"   -> "returned"
      [] boot.at = "returned" -> IF done_event THEN "returned" ELSE "waiting"
      [] boot.at = "running"  -> IF done_event THEN "returned" ELSE "constructing"
      [] OTHER                -> "constructing"

NextAnnotate ==
    \/ ValidateFile
    \/ InitializeVideoCapture
    \/ InitializeDataObject
    \/ InitializeControlWindow
    \/ StartThread
    \/ EnterMainloop
    \/ LoopTest
    \/ HandleCommands
    \/ ProcessFrame
    \/ EndTick
    \/ CloseRelease
    \/ SaveVideo
    \/ SaveAudio
    \/ SaveMux
    \/ SaveJson
    \/ Join

\* The statements of start() and close() run to completion, the capture thread
\* is scheduled, and the user closes the session.
SpecAnnotate ==
    /\ InitStart
    /\ [][NextAnnotate]_vars
    /\ WF_vars(ValidateFile \/ InitializeVideoCapture \/ InitializeDataObject
                  \/ InitializeControlWindow \/ StartThread \/ EnterMainloop)
    /\ WF_vars(LoopTest \/ HandleCommands \/ ProcessFrame \/ EndTick)
    /\ WF_vars(CloseRelease \/ SaveVideo \/ SaveAudio \/ SaveMux \/ SaveJson \/ Join)

\* C34: every call of annotate() for an existing top file eventually returns:
\* done_event is eventually set on every path out of the VideoPlayer constructor,
\* also when the session fails to start (source file missing, decoder not opened),
\* so done_event.wait() never blocks forever.
C34_AnnotateReturns ==
    /\ <>(annotate_at = "returned")
    /\ [](annotate_at = "waiting" => <>done_event)

\* The capture loop kept its tick budget: consecutive stored frames are exactly one
\* frame delay apart
OnBudget == \A i \in 2..Len(frames) : frames[i].ts - frames[i - 1].ts = frame_delay

\* C35: when the capture loop keeps its tick budget (consecutive frame timestamps
\* differ by exactly the frame delay of 1000/fps ms), gap reconciliation detects no
\* gap and drops no audio chunk, at every supported source frame rate fps >= 1.
C35_OnBudgetKeepsAudio ==
    OnBudget =>
       /\ identify_video_gaps(frames, GapThreshold) = <<>>
       /\ combined_audio(frames, audio_data) = payloads(audio_data)

JsonWritten == \E i \in 1..Len(save_log) : save_log[i] = "save_json"

JsonFrameKeys == DOMAIN json_file \ {"metadata"}

\* C36: the artifacts of one save describe the same snapshot: the persisted
\* annotation timeline has as many frame-indexed entries as the video has frames, and
\* its integer keys are exactly the logical indices of the written frames, in every
\* interleaving of close(save=True) with the capture loop and the audio callback.
C36_OneSnapshot ==
    (JsonWritten /\ final_file # Absent) =>
        JsonFrameKeys = {ToString(i) : i \in 0..(Len(final_file) - 1)}

====
